---- MODULE Spec2Model ----
(***************************************************************************)
(* A model of mesh2cot.py: the onReceive callback that turns a decoded     *)
(* Meshtastic position packet into a Cursor-on-Target XML event (makeCoT)  *)
(* and sends it as one UDP datagram.                                       *)
(*                                                                         *)
(* Python strings that the program formats ('%08x', '%f', '%d') are        *)
(* sequences of one-character strings; literal strings stay TLA+ strings.  *)
(* Python values read from the packet carry their type in a tag, so that   *)
(* a missing key (KeyError), a value of the wrong type (TypeError) and a   *)
(* falsy value are distinguished the way the interpreter distinguishes     *)
(* them.                                                                   *)
(***************************************************************************)
EXTENDS Integers, Sequences, FiniteSets, TLC

VARIABLES
    config,     \* the module-level settings read once from the environment
    clock,      \* the system clock, in ticks of 1/TicksPerSec second
    log,        \* history: one entry per call of onReceive: the packet, how
                \* the call ended, Len(net) when it began, and how many
                \* datagrams it sent and sockets it opened and closed
    net,        \* the datagrams handed to sendto, in order
    openSocks,  \* sockets opened by socket.socket and not yet closed
    running     \* the library thread that delivers packets is alive

vars == <<config, clock, log, net, openSocks, running>>

----------------------------------------------------------------------------
(* Bounds of the model *)

\* at most this many packets are delivered in one behaviour
MaxPackets == 2
\* clock ticks per second: the sub-second resolution of time()
TicksPerSec == 2
\* the clock stops advancing at this tick
MaxClock == 2

----------------------------------------------------------------------------
(* Module-level constants of mesh2cot.py *)

POINT_EVT_TTL == 120

UUID_ROOT ==
    << "7","e","a","4","5","2","c","5","-","a","1","e","c","-",
       "5","7","1","c","-","a","7","a","c" >>

REMARK == ""

\* the settings os.getenv yields: the defaults, and one overriding environment
Configs ==
    { [ATAK_HOST |-> "239.2.3.1", ATAK_PORT |-> 6969, UNIT_TYPE |-> "a-f-G-U-C",
       UNIT_TEAM |-> "Green", UNIT_ROLE |-> "Team Member"],
      [ATAK_HOST |-> "10.0.0.7", ATAK_PORT |-> 4242, UNIT_TYPE |-> "a-h-G",
       UNIT_TEAM |-> "Red", UNIT_ROLE |-> "HQ"] }

----------------------------------------------------------------------------
(* Python values found in a packet *)

Absent   == [ty |-> "absent", v |-> 0]     \* the key is not in the dict
PyFalse  == [ty |-> "bool",   v |-> 0]     \* the literal False
PyStr    == [ty |-> "str",    v |-> 1]     \* a non-empty, non-numeric string
PyInt(n)   == [ty |-> "int",   v |-> n]
PyFloat(u) == [ty |-> "float", v |-> u]    \* u: the value in 10^-6 units
PyText(s)  == [ty |-> "text",  v |-> s]    \* a str built by formatting

\* bool(x) of the interpreter
Truthy(x) ==
    CASE x.ty = "str"              -> TRUE
      [] x.ty = "text"             -> Len(x.v) > 0
      [] x.ty \in {"int", "float"} -> x.v # 0
      [] OTHER                     -> FALSE

\* a 32-bit unsigned node number, kept as two 16-bit halves
U32(hi, lo) == [hi |-> hi, lo |-> lo]

PositionFields == {"latitude", "longitude", "altitude", "batteryLevel"}

Position(kind, lat, lon, alt, batt) ==
    [kind |-> kind, latitude |-> lat, longitude |-> lon,
     altitude |-> alt, batteryLevel |-> batt]

NoPosition    == Position("absent", Absent, Absent, Absent, Absent)
\* a 'position' value that is no dict (a string, a list, None)
OtherPosition == Position("other", Absent, Absent, Absent, Absent)

\* position.keys()
Keys(pos) == {k \in PositionFields : pos[k].ty # "absent"}

Packet(from, decoded, pos) == [from |-> from, decoded |-> decoded, position |-> pos]

----------------------------------------------------------------------------
(* printf-style formatting, as the % operator of str computes it *)

Digits == << "0","1","2","3","4","5","6","7","8","9","a","b","c","d","e","f" >>

RECURSIVE Repeat(_, _)
Repeat(c, n) == IF n <= 0 THEN << >> ELSE << c >> \o Repeat(c, n - 1)

\* the '0' flag with a minimum field width: pad on the left, never truncate
ZeroPad(s, width) == Repeat("0", width - Len(s)) \o s

\* the digits of a non-negative integer in the given base, without padding
RECURSIVE ToBase(_, _)
ToBase(n, base) ==
    IF n < base THEN << Digits[n + 1] >>
    ELSE ToBase(n \div base, base) \o << Digits[(n % base) + 1] >>

\* the hex digits of a two-halves 32-bit number, without padding
RECURSIVE ToHex32(_)
ToHex32(n) ==
    IF n.hi = 0 THEN ToBase(n.lo, 16)
    ELSE ToHex32(U32(n.hi \div 16, (n.hi % 16) * 4096 + (n.lo \div 16)))
             \o << Digits[(n.lo % 16) + 1] >>

\* '%08x' % n
\* (a slip: the conversion applied to a 16-bit quantity, '%04x')
Fmt08x_halfWidth(n) == ZeroPad(ToBase(n.lo, 16), 4)
Fmt08x(n) == ZeroPad(ToHex32(n), 8)

\* '%d' % n
FmtD(n) == IF n < 0 THEN << "-" >> \o ToBase(-n, 10) ELSE ToBase(n, 10)

\* '%f' % x for x given in 10^-6 units: six digits after the point
FmtF(u) ==
    LET a == IF u < 0 THEN -u ELSE u
    IN  (IF u < 0 THEN << "-" >> ELSE << >>)
            \o ToBase(a \div 1000000, 10) \o << "." >>
            \o ZeroPad(ToBase(a % 1000000, 10), 6)

\* the exception that formatting x with a numeric conversion raises, if any:
\* a subscript of a missing key raises KeyError, '%f' % 'abc' raises TypeError
FormatError(x) ==
    CASE x.ty = "absent"           -> "KeyError"
      [] x.ty \in {"int", "float"} -> "none"
      [] OTHER                     -> "TypeError"

\* strftime(TIME_FORMAT, gmtime(t)): the broken-down UTC time of the whole
\* second that tick t lies in; the milliseconds are the literal '.000'
StrfTime(t) ==
    LET s == t \div TicksPerSec
    IN  [day |-> s \div 86400, hour |-> (s \div 3600) % 24,
         min |-> (s \div 60) % 60, sec |-> s % 60, msec |-> "000"]

----------------------------------------------------------------------------
(* The packets delivered to onReceive *)

NodeA == U32(6699, 15437)      \* 0x1a2b3c4d
NodeB == U32(0, 15)            \* 0x0000000f
NodeC == U32(65535, 65535)     \* 0xffffffff

SourceIds == {NodeA, NodeB, NodeC}

Lat1 == PyFloat(45123456)      \* 45.123456
Lon1 == PyFloat(-93654321)     \* -93.654321
Lat2 == PyFloat(-500000)       \* -0.5
Lon2 == PyFloat(7000042)       \* 7.000042
Alt1 == PyFloat(250000000)     \* 250.0

\* position dicts with both coordinates, all values of the documented types
QualifyingPositions ==
    { Position("mapping", Lat1, Lon1, Absent, batt) :
        batt \in {Absent, PyInt(0), PyInt(78)} }

\* position dicts without one or both coordinates
PartialPositions ==
    { Position("mapping", Lat1, Absent, Absent, Absent),
      Position("mapping", Absent, Lon1, Absent, PyInt(78)),
      Position("mapping", Absent, Absent, Alt1, PyStr) }

\* position dicts whose values cannot be formatted as numbers
UnformattablePositions ==
    { Position("mapping", PyStr, Lon1, Absent, Absent),
      Position("mapping", Lat1, Lon1, Absent, PyStr) }

Packets ==
    { Packet(NodeA, "present", pos) :
        pos \in QualifyingPositions \cup PartialPositions
                  \cup UnformattablePositions \cup {NoPosition, OtherPosition} }
    \cup { Packet(NodeA, "absent", NoPosition) }
    \cup { Packet(NodeB, "present", Position("mapping", Lat2, Lon2, Alt1, Absent)),
           Packet(NodeC, "present", Position("mapping", Lat1, Lon2, Absent, PyInt(100))) }

----------------------------------------------------------------------------
(* xml.etree.ElementTree: elements and their serialization *)

\* ET.Element(tag, attrib): attrib is the sequence of <<name, value>> pairs
\* in insertion order; text "" stands for no text
Element(tag, attrib, text, children) ==
    [tag |-> tag, attrib |-> attrib, text |-> text, children |-> children]

\* ET.tostring(el) as the sequence of its tags: an element with neither text
\* nor children is written as one empty-element tag
RECURSIVE tostring(_)
RECURSIVE tostringAll(_)
tostring(el) ==
    IF el.text = "" /\ el.children = << >>
    THEN << [kind |-> "empty", tag |-> el.tag, attrib |-> el.attrib] >>
    ELSE << [kind |-> "start", tag |-> el.tag, attrib |-> el.attrib] >>
           \o (IF el.text = "" THEN << >>
               ELSE << [kind |-> "text", tag |-> el.text, attrib |-> << >>] >>)
           \o tostringAll(el.children)
           \o << [kind |-> "end", tag |-> el.tag, attrib |-> << >>] >>
tostringAll(els) ==
    IF els = << >> THEN << >> ELSE tostring(Head(els)) \o tostringAll(Tail(els))

XML_DECL ==
    [kind |-> "decl", tag |-> "<?xml version=\"1.0\" standalone=\"yes\"?>",
     attrib |-> << >>]

----------------------------------------------------------------------------
(* makeCoT *)

\* the event attributes; now1, now2, now3 are the three readings of the clock
event_attr(cfg, uuid, now1, now2, now3) ==
    << <<"version", "2.0">>,
       <<"uid", uuid>>,
       <<"time", StrfTime(now1)>>,
       <<"start", StrfTime(now2)>>,
       <<"stale", StrfTime(now3 + POINT_EVT_TTL * TicksPerSec)>>,
       <<"type", cfg.UNIT_TYPE>>,
       <<"how", "m-g">> >>

point_attr(lat, lon, alt) ==
    << <<"lat", lat>>, <<"lon", lon>>, <<"hae", alt>>,
       <<"ce", "9999999.0">>, <<"le", "9999999.0">> >>

takv_attr ==
    << <<"device", "MESH2COT">>, <<"platform", "ATAK">>,
       <<"version", "3.8-COMPAT">>, <<"os", "23">> >>

precis_attr == << <<"geopointsrc", "GPS">>, <<"altsrc", "GPS">> >>

\* (a slip: the status element added whether or not batt is given, and again
\* when it is)
detail_children_statusTwice(cfg, callsign, batt) ==
    << Element("contact", << <<"callsign", callsign>> >>, "", << >>),
       Element("uid", << <<"Droid", callsign>> >>, "", << >>),
       Element("remarks", << >>, REMARK, << >>),
       Element("__group", << <<"name", cfg.UNIT_TEAM>>, <<"role", cfg.UNIT_ROLE>> >>,
               "", << >>),
       Element("takv", takv_attr, "", << >>),
       Element("status", << <<"battery", batt.v>> >>, "", << >>) >>
    \o (IF Truthy(batt)
        THEN << Element("status", << <<"battery", batt.v>> >>, "", << >>) >>
        ELSE << >>)
    \o << Element("precisionlocation", precis_attr, "", << >>) >>
\* the sub-elements of 'detail'; batt is False or the battery text
detail_children(cfg, callsign, batt) ==
    << Element("contact", << <<"callsign", callsign>> >>, "", << >>),
       Element("uid", << <<"Droid", callsign>> >>, "", << >>),
       Element("remarks", << >>, REMARK, << >>),
       Element("__group", << <<"name", cfg.UNIT_TEAM>>, <<"role", cfg.UNIT_ROLE>> >>,
               "", << >>),
       Element("takv", takv_attr, "", << >>) >>
    \o (IF Truthy(batt)
        THEN << Element("status", << <<"battery", batt.v>> >>, "", << >>) >>
        ELSE << >>)
    \o << Element("precisionlocation", precis_attr, "", << >>) >>

makeCoT(cfg, callsign, uuid, lat, lon, alt, batt, now1, now2, now3) ==
    LET cot == Element("event", event_attr(cfg, uuid, now1, now2, now3), "",
                   << Element("point", point_attr(lat, lon, alt), "", << >>),
                      Element("detail", << >>, "",
                              detail_children(cfg, callsign, batt)) >>)
    IN  << XML_DECL >> \o tostring(cot)

----------------------------------------------------------------------------
(* onReceive *)

\* batt after the try/except KeyError around the batteryLevel subscript
BatteryLevel(pos) ==
    IF "batteryLevel" \in Keys(pos) THEN pos.batteryLevel ELSE PyFalse

\* (a slip: only the latitude is required)
HasLatLon_latitudeOnly(pos) == {"latitude"} \subseteq Keys(pos)
\* position.keys() >= {'latitude', 'longitude'}
HasLatLon(pos) == {"latitude", "longitude"} \subseteq Keys(pos)

\* ('%d' % batt) if batt else False
BattArg(batt) == IF Truthy(batt) THEN PyText(FmtD(batt.v)) ELSE PyFalse

\* the exception the conditional expression above raises, if any
BattArgError(batt) == IF Truthy(batt) THEN FormatError(batt) ELSE "none"

\* 'mesh-%08x' % packet['from']
Callsign(from) == << "m", "e", "s", "h", "-" >> \o Fmt08x(from)

\* UUID_ROOT + '-00%08x' % packet['from']
Uid(from) == UUID_ROOT \o << "-", "0", "0" >> \o Fmt08x(from)

\* (a slip: the commented-out line restored, the packet's altitude passed on)
AltArg_fromPacket(pos) ==
    IF pos.altitude.ty = "float" THEN FmtF(pos.altitude.v)
    ELSE << "9","9","9","9","9","9","9",".","0" >>
\* the altitude argument of makeCoT: the literal, the packet's altitude being
\* commented out
AltArg(pos) == << "9","9","9","9","9","9","9",".","0" >>

\* the first exception raised while the arguments of makeCoT are evaluated
ArgError(pos, batt) ==
    CASE FormatError(pos.latitude) # "none"  -> FormatError(pos.latitude)
      [] FormatError(pos.longitude) # "none" -> FormatError(pos.longitude)
      [] OTHER                               -> BattArgError(batt)

Outcome(result, dgrams, opened, closed) ==
    [result |-> result, dgrams |-> dgrams, opened |-> opened, closed |-> closed]

\* socket, sendto, close: close is reached only when sendto returns
Send(cfg, CoT, sendFails) ==
    LET dgram == [data |-> CoT, host |-> cfg.ATAK_HOST, port |-> cfg.ATAK_PORT,
                  delivered |-> ~sendFails]
    IN  IF sendFails THEN Outcome("OSError", << dgram >>, 1, 0)
        ELSE Outcome("returned", << dgram >>, 1, 1)

\* what one call of onReceive does: how it ends, the datagrams it hands to
\* sendto, and the sockets it opens and closes
Handle(cfg, packet, now1, now2, now3, sendFails) ==
    LET pos == packet.position IN
    IF packet.decoded = "absent" THEN Outcome("KeyError", << >>, 0, 0)
    ELSE IF pos.kind = "absent" THEN Outcome("returned", << >>, 0, 0)
    ELSE IF pos.kind # "mapping" THEN Outcome("TypeError", << >>, 0, 0)
    ELSE LET batt == BatteryLevel(pos) IN
         IF ~HasLatLon(pos) THEN Outcome("returned", << >>, 0, 0)
         ELSE IF ArgError(pos, batt) # "none"
              THEN Outcome(ArgError(pos, batt), << >>, 0, 0)
         ELSE Send(cfg,
                   makeCoT(cfg, Callsign(packet.from), Uid(packet.from),
                           FmtF(pos.latitude.v), FmtF(pos.longitude.v),
                           AltArg(pos), BattArg(batt), now1, now2, now3),
                   sendFails)

----------------------------------------------------------------------------
(* The state machine *)

Init ==
    /\ config \in Configs
    /\ clock = 0
    /\ log = << >>
    /\ net = << >>
    /\ openSocks = 0
    /\ running = TRUE

\* The library thread calls onReceive(packet) and runs it to completion.  The
\* clock may advance between the three readings in makeCoT (d1, d2), and
\* sendto may fail (sendFails).  Nothing in mesh2cot.py catches an exception
\* that leaves onReceive: it unwinds into the library that made the call,
\* which either logs it and goes on or lets its thread end (threadEnds).
onReceive(packet) ==
    /\ running
    /\ Len(log) < MaxPackets
    /\ \E d1 \in 0..1, d2 \in 0..1, sendFails \in BOOLEAN :
         /\ clock + d1 + d2 <= MaxClock
         /\ \E o \in {Handle(config, packet, clock, clock + d1, clock + d1 + d2,
                              sendFails)} :
             /\ clock' = clock + d1 + d2
             /\ log' = Append(log, [packet |-> packet, result |-> o.result,
                                    at |-> Len(net), sent |-> Len(o.dgrams),
                                    opened |-> o.opened, closed |-> o.closed])
             /\ net' = net \o o.dgrams
             /\ openSocks' = openSocks + o.opened - o.closed
             /\ \E threadEnds \in BOOLEAN :
                  running' = (o.result = "returned" \/ ~threadEnds)
    /\ UNCHANGED config

\* time passes while no packet is being handled
Tick ==
    /\ clock < MaxClock
    /\ clock' = clock + 1
    /\ UNCHANGED <<config, log, net, openSocks, running>>

Next ==
    \/ \E packet \in Packets : onReceive(packet)
    \/ Tick

Spec == Init /\ [][Next]_vars

----------------------------------------------------------------------------
(* Reading a sent document back: what an XML parser sees *)

\* the indices of the tags that open an element with the given name
Opening(data, tag) ==
    {i \in DOMAIN data : data[i].kind \in {"start", "empty"} /\ data[i].tag = tag}

\* for each tag from the i-th on, the number of elements open just before
\* it, d being that number for the i-th
RECURSIVE DepthsFrom(_, _, _)
DepthsFrom(data, i, d) ==
    IF i > Len(data) THEN << >>
    ELSE << d >> \o DepthsFrom(data, i + 1,
                               CASE data[i].kind = "start" -> d + 1
                                 [] data[i].kind = "end"   -> d - 1
                                 [] OTHER                  -> d)

Depths(data) == DepthsFrom(data, 1, 0)

\* the indices of the elements at the given depth, and how many of them have
\* the given name
ElementsAt(data, depths, d) ==
    {i \in DOMAIN data : data[i].kind \in {"start", "empty"} /\ depths[i] = d}

Count(data, elements, tag) == Cardinality({i \in elements : data[i].tag = tag})

AttrNames(tok) == {tok.attrib[j][1] : j \in DOMAIN tok.attrib}

Attr(tok, name) ==
    tok.attrib[CHOOSE j \in DOMAIN tok.attrib : tok.attrib[j][1] = name][2]

\* the one element with the given name
The(data, tag) == data[CHOOSE i \in Opening(data, tag) : TRUE]

\* the number that a string of digits denotes
RECURSIVE FromBase(_, _)
FromBase(s, base) ==
    IF s = << >> THEN 0
    ELSE FromBase(SubSeq(s, 1, Len(s) - 1), base) * base
             + (CHOOSE d \in 0..(base - 1) : Digits[d + 1] = s[Len(s)])

IsDigits(s, base) == \A j \in DOMAIN s : \E d \in 1..base : Digits[d] = s[j]

\* the whole seconds since the epoch that a formatted time denotes
Seconds(ts) == ts.day * 86400 + ts.hour * 3600 + ts.min * 60 + ts.sec

\* the calls of onReceive that handed a datagram to sendto, and the datagram
Sent(i) == log[i].sent > 0
Datagram(i) == net[log[i].at + 1]
Document(i) == Datagram(i).data

\* Len(net) when call i ended
NetAfter(i) == IF i < Len(log) THEN log[i + 1].at ELSE Len(net)

HasKey(pos, k) == pos[k].ty # "absent"

\* the packet has a position dict with a latitude and a longitude
Qualifying(p) ==
    /\ p.decoded = "present"
    /\ p.position.kind = "mapping"
    /\ HasKey(p.position, "latitude")
    /\ HasKey(p.position, "longitude")

\* the packet is not of the documented shape: no 'decoded', a position that
\* is no dict, or a latitude, longitude or batteryLevel that is no number
Malformed(p) ==
    \/ p.decoded = "absent"
    \/ p.position.kind = "other"
    \/ \E k \in {"latitude", "longitude", "batteryLevel"} : p.position[k].ty = "str"

----------------------------------------------------------------------------
(* Properties *)

\* C4: a packet with a decoded payload whose position is missing, or is a dict
\* without a latitude or without a longitude (whatever else it holds), makes
\* onReceive return normally with no datagram sent and no socket opened.
C4_NonQualifyingSkipped ==
    \A i \in DOMAIN log :
        LET p == log[i].packet IN
        (/\ p.decoded = "present"
         /\ \/ p.position.kind = "absent"
            \/ /\ p.position.kind = "mapping"
               /\ \/ ~HasKey(p.position, "latitude")
                  \/ ~HasKey(p.position, "longitude"))
        => /\ log[i].result = "returned"
           /\ NetAfter(i) = log[i].at
           /\ log[i].sent = 0
           /\ log[i].opened = 0

\* a position with a latitude and a battery level but no longitude was handled,
\* and so was a packet without a position
C4_Witness ==
    /\ \E i \in DOMAIN log :
          /\ log[i].packet.position.kind = "mapping"
          /\ HasKey(log[i].packet.position, "longitude")
          /\ ~HasKey(log[i].packet.position, "latitude")
          /\ HasKey(log[i].packet.position, "batteryLevel")
    /\ \E i \in DOMAIN log :
          /\ log[i].packet.position.kind = "mapping"
          /\ HasKey(log[i].packet.position, "latitude")
          /\ ~HasKey(log[i].packet.position, "longitude")

\* the uid and the callsign that call i put into its document
UidOf(i) == Attr(The(Document(i), "event"), "uid")
CallsignOf(i) == Attr(The(Document(i), "contact"), "callsign")

C8_AltitudeSentinel ==
    \A i \in DOMAIN log : Sent(i) =>
        LET point == The(Document(i), "point")
        IN  /\ Attr(point, "hae") = << "9","9","9","9","9","9","9",".","0" >>
            /\ Attr(point, "ce") = "9999999.0"
            /\ Attr(point, "le") = "9999999.0"

\* a document was sent for a packet with an altitude, and one for a packet
\* without
C8_Witness ==
    /\ \E i \in DOMAIN log : Sent(i) /\ HasKey(log[i].packet.position, "altitude")
    /\ \E i \in DOMAIN log : Sent(i) /\ ~HasKey(log[i].packet.position, "altitude")

\* C9: every document is the XML declaration followed by one 'event' element
\* with exactly the attributes version, uid, time, start, stale, type, how
\* (how 'm-g', type the configured UNIT_TYPE), one 'point' and one 'detail'
\* child; the detail holds exactly one contact, uid (Droid), remarks, __group,
\* takv and precisionlocation, and at most one status.
C9_DocumentShape ==
    \A k \in DOMAIN net :
      \A data \in {net[k].data} : \A depths \in {Depths(data)} :
        \A children \in {ElementsAt(data, depths, 1)} :
          \A details \in {ElementsAt(data, depths, 2)} :
            /\ data[1].kind = "decl"
            /\ data[1].tag = "<?xml version=\"1.0\" standalone=\"yes\"?>"
            /\ ElementsAt(data, depths, 0) = {2}
            /\ data[2].kind = "start" /\ data[2].tag = "event"
            /\ data[Len(data)].kind = "end" /\ data[Len(data)].tag = "event"
            /\ Len(data[2].attrib) = 7
            /\ AttrNames(data[2]) =
                 {"version", "uid", "time", "start", "stale", "type", "how"}
            /\ Attr(data[2], "how") = "m-g"
            /\ Attr(data[2], "type") = config.UNIT_TYPE
            /\ Cardinality(children) = 2
            /\ Count(data, children, "point") = 1
            /\ Count(data, children, "detail") = 1
            /\ \A i \in children : data[i].tag = "point" => data[i].kind = "empty"
            /\ \A t \in {"contact", "uid", "remarks", "__group", "takv",
                         "precisionlocation"} : Count(data, details, t) = 1
            /\ Count(data, details, "status") <= 1
            /\ Cardinality(details) = 6 + Count(data, details, "status")
            /\ AttrNames(data[CHOOSE i \in details : data[i].tag = "uid"]) = {"Droid"}
            /\ ElementsAt(data, depths, 3) = {}

\* a document with a status element and a document without were sent
C9_Witness ==
    /\ \E k \in DOMAIN net : Opening(net[k].data, "status") # {}
    /\ \E k \in DOMAIN net : Opening(net[k].data, "status") = {}

\* C1: a malformed packet never makes onReceive fail: it is dropped with no
\* datagram sent, no exception leaves the handler, and packets that follow
\* are still handled.
C1_MalformedPacketDropped ==
    /\ \A i \in DOMAIN log : Malformed(log[i].packet) =>
          /\ log[i].result = "returned"
          /\ log[i].sent = 0
    /\ (\E i \in DOMAIN log : Malformed(log[i].packet)) => running

\* C2: in every document, stale is exactly POINT_EVT_TTL seconds after start,
\* also when the clock advances between the readings inside makeCoT.
C2_StaleIsStartPlusTTL ==
    \A k \in DOMAIN net :
        LET event == The(net[k].data, "event")
        IN  Seconds(Attr(event, "stale")) - Seconds(Attr(event, "start")) = 120

\* C3: a document sent for a position with an integer batteryLevel in 0..100
\* or with none has a status element exactly if the batteryLevel is there,
\* and its battery attribute is then the decimal text of the value.
C3_StatusIffBatteryLevel ==
    \A i \in DOMAIN log :
        LET pos == log[i].packet.position
            status == Opening(Document(i), "status")
        IN  (/\ Sent(i)
             /\ \/ ~HasKey(pos, "batteryLevel")
                \/ pos.batteryLevel.ty = "int" /\ pos.batteryLevel.v \in 0..100)
            => /\ (status # {}) <=> HasKey(pos, "batteryLevel")
               /\ (status # {}) =>
                    LET text == Attr(The(Document(i), "status"), "battery")
                    IN  /\ IsDigits(text, 10)
                        /\ FromBase(text, 10) = pos.batteryLevel.v
                        /\ text # << >> /\ (Len(text) > 1 => text[1] # "0")

\* C5: whenever no packet is being handled, every socket that onReceive
\* opened has been closed, also after a send that failed.
C5_SocketAlwaysReleased == openSocks = 0

QualifyingUpTo(i) == {j \in 1..i : Qualifying(log[j].packet)}

====
